---- MODULE Spec2Model ----
(***************************************************************************)
(* Model of the system-information status bar extension                    *)
(* (src/src/extension.ts): four status bar items, the 2000 ms sampling     *)
(* timer driving updateStatusBar, the 30000 ms remote-latency timer        *)
(* driving measureRemoteLatency, the vscode-sysinfo.showDetails command    *)
(* and the formatting helpers.                                             *)
(*                                                                         *)
(* Numbers.  Durations and lastResponseTime are integers in microseconds   *)
(* (thousandths of a millisecond); percentages are integers in thousandths *)
(* of a percent.  A rendered number is a record [v, d]: the integer v with *)
(* d decimals (v = 235, d = 1 is "23.5").  Byte counts are base-1024       *)
(* little-endian digit sequences without leading zero digits (<<>> is 0,   *)
(* <<0, 1>> is 1024), so that counts beyond 2^31 stay exact.               *)
(***************************************************************************)
EXTENDS Integers, Sequences, FiniteSets, TLC

\* ------------------------------------------------------------------ bounds
MaxTicks == 2
MaxProbes == 1
MaxDetails == 1
MaxShown == 1
MaxDigits == 6

\* --------------------------------------------------------------- constants
UPDATE_INTERVAL == 2000
LATENCY_INTERVAL == 30000
PAUSE_MS == 10
k == 1024

Undefined == "undefined"

\* ----------------------------------------------------------------- numbers
\* A rendered value: the integer v with d decimals followed by unit; a
\* literal string is carried in unit with v = d = 0.
R(v, d, unit) == [v |-> v, d |-> d, unit |-> unit]

Lit(str) == R(0, 0, str)

NaN == Lit("NaN")

\* JavaScript null / missing field of a provider record
Null == -1

\* the condition of  x ? a : b  and the left side of  x || b  on a number
Truthy(x) == x # Null /\ x # 0

Pow10(e) == IF e = 0 THEN 1 ELSE IF e = 1 THEN 10 ELSE IF e = 2 THEN 100 ELSE 1000

\* Number.prototype.toFixed on a non-negative value n/den: the nearest
\* integer to n/den, the larger one on a tie.
RoundHalfUp(n, den) == (2 * n + den) \div (2 * den)

\* (n / den).toFixed(digits); a zero divisor gives NaN (0 / 0)
toFixedQ(n, den, digits) ==
    IF den = 0 THEN NaN ELSE R(RoundHalfUp(n * Pow10(digits), den), digits, "")

\* x.toFixed(digits) for x given in thousandths
toFixed(x, digits) == toFixedQ(x, 1000, digits)

\* parseFloat of a toFixed string followed by string concatenation: the
\* shortest decimal form, trailing zero decimals dropped.
RECURSIVE parseFloat(_)
parseFloat(r) ==
    IF r.d > 0 /\ r.v % 10 = 0 THEN parseFloat(R(r.v \div 10, r.d - 1, r.unit))
    ELSE r

\* ------------------------------------------------------------ byte counts
DigitAt(ds, j) == IF j \in DOMAIN ds THEN ds[j] ELSE 0

RECURSIVE Normalize(_)
Normalize(ds) ==
    IF ds # <<>> /\ ds[Len(ds)] = 0 THEN Normalize(SubSeq(ds, 1, Len(ds) - 1))
    ELSE ds

\* the digits of 100 * bytes (schoolbook multiplication with carry)
RECURSIVE Times100(_, _)
Times100(digits, carry) ==
    IF digits = <<>> THEN (IF carry = 0 THEN <<>> ELSE <<carry>>)
    ELSE LET p == 100 * Head(digits) + carry
         IN  <<p % k>> \o Times100(Tail(digits), p \div k)

\* a - b for a >= b (schoolbook subtraction with borrow)
RECURSIVE SubDigits(_, _, _)
SubDigits(a, b, borrow) ==
    IF a = <<>> THEN <<>>
    ELSE LET x == Head(a) - DigitAt(b, 1) - borrow
         IN  <<x % k>> \o SubDigits(Tail(a), IF b = <<>> THEN <<>> ELSE Tail(b),
                                   IF x < 0 THEN 1 ELSE 0)

Minus(a, b) == Normalize(SubDigits(a, b, 0))

\* the number a digit sequence stands for (short sequences only)
RECURSIVE Value(_)
Value(ds) == IF ds = <<>> THEN 0 ELSE Head(ds) + k * Value(Tail(ds))

\* floor(100 * bytes / k^i) and the rounded (bytes / k^i).toFixed(2), in
\* hundredths: the digits of 100*bytes from position i up, plus one when
\* the remainder is at least half of k^i.
FloorHundredths(bytes, i) ==
    LET p == Times100(bytes, 0)
    IN  IF Len(p) <= i THEN 0 ELSE Value(SubSeq(p, i + 1, Len(p)))

Hundredths(bytes, i) ==
    LET p == Times100(bytes, 0)
    IN  FloorHundredths(bytes, i) + (IF DigitAt(p, i) >= k \div 2 THEN 1 ELSE 0)

\* ------------------------------------------------------------- formatBytes
sizes == <<"Bytes", "KB", "MB", "GB", "TB">>

\* sizes[i] with a JavaScript array read: out of range gives undefined
SizeName(i) == IF i + 1 \in DOMAIN sizes THEN sizes[i + 1] ELSE Undefined

\* Math.floor(Math.log(bytes) / Math.log(k)) for bytes > 0: the index of the
\* leading base-k digit.
UnitIndex(bytes) == Len(bytes) - 1

formatBytes(bytes) ==
    IF bytes = <<>> THEN Lit("0 Bytes")
    ELSE LET i == UnitIndex(bytes)
             r == parseFloat(R(Hundredths(bytes, i), 2, ""))
         IN  R(r.v, r.d, SizeName(i))

\* --------------------------------------------------------- provider data
\* si.currentLoad(): loads in thousandths of a percent, cpus = number of cores
CpuLight == [currentLoad |-> 23456, currentLoadUser |-> 15000,
             currentLoadSystem |-> 8456, avgLoad |-> 1230, cpus |-> 4]

CpuBusy == [currentLoad |-> 99950, currentLoadUser |-> 90000,
            currentLoadSystem |-> 9950, avgLoad |-> 3995, cpus |-> 8]

\* si.mem(): byte counts; 8 GiB with 4 GiB used and no swap, 2 GiB with
\* 1.5 GiB used and 1 GiB of swap
MemNoSwap ==
    [total |-> <<0, 0, 0, 8>>, used |-> <<0, 0, 0, 4>>, active |-> <<0, 0, 0, 3>>,
     available |-> <<0, 0, 0, 4>>, free |-> <<0, 0, 0, 1>>, cached |-> <<>>,
     buffers |-> <<>>, swaptotal |-> <<>>, swapused |-> <<>>]

MemSwap ==
    [total |-> <<0, 0, 0, 2>>, used |-> <<0, 0, 512, 1>>, active |-> <<0, 0, 0, 1>>,
     available |-> <<0, 0, 512>>, free |-> <<0, 0, 256>>, cached |-> <<0, 0, 100>>,
     buffers |-> <<0, 0, 20>>, swaptotal |-> <<0, 0, 0, 1>>, swapused |-> <<0, 0, 256>>]

\* si.fsSize(): the list of filesystems, use in thousandths of a percent
NoDisks == <<>>

OneDisk == << [fs |-> "/dev/sda1", type |-> "ext4", size |-> <<0, 0, 0, 100>>,
               used |-> <<0, 0, 512, 42>>, use |-> 42500, mount |-> "/"] >>

\* si.osInfo()
Linux == [platform |-> "linux", distro |-> "Ubuntu", release |-> "22.04",
          kernel |-> "5.15.0", arch |-> "x64", hostname |-> "host"]

\* si.cpuTemperature(): main in thousandths of a degree, Null without sensor
NoSensor == [main |-> Null]

Sensor == [main |-> 55540]

\* what the provider reports at one moment: a machine without swap, disks
\* and temperature sensor, and one with all of them
Snapshots ==
    { [cpu |-> CpuLight, mem |-> MemNoSwap, disk |-> NoDisks, osInfo |-> Linux,
       cpuTemp |-> NoSensor],
      [cpu |-> CpuBusy, mem |-> MemSwap, disk |-> OneDisk, osInfo |-> Linux,
       cpuTemp |-> Sensor] }

\* what a provider or host call rejects with: an Error with this message
TickFetches == {"currentLoad", "mem", "fsSize"}

DetailFetches == {"currentLoad", "mem", "fsSize", "osInfo", "cpuTemperature"}

Message(f) == f

\* measured durations (endTime - startTime), microseconds
Durations == {5000, 20000}

\* how long one vscode.workspace.fs.stat round trip takes, microseconds
StatDurations == {5000, 40000}

\* vscode.env.remoteName
RemoteNames == {Undefined, "ssh-remote"}

\* ------------------------------------------------------------------- state
VARIABLES
    phase,             \* "loaded", "active" (activate returned), "deactivated"
    remoteName,        \* vscode.env.remoteName
    responseTimeItem,  \* the four status bar items
    cpuUsageItem,
    memoryUsageItem,
    diskUsageItem,
    lastResponseTime,  \* module variable, microseconds
    samplingTimer,     \* the setInterval(updateStatusBar, ...) timer is set
    latencyTimer,      \* the setInterval(measureRemoteLatency, ...) timer is set
    command,           \* vscode-sysinfo.showDetails is registered
    tick,              \* invocations of updateStatusBar
    probe,             \* invocations of measureRemoteLatency
    detail,            \* invocations of the showDetails callback
    infoShown,         \* number of showInformationMessage calls
    errorShown,        \* number of showErrorMessage calls
    lastInfo,          \* detail of the last information message
    lastError,         \* text of the last error message
    lastTick,          \* history: what the tick completed last wrote
    byteCount,             \* an argument of formatBytes
    formatted          \* what formatBytes returned for it

vars == <<phase, remoteName, responseTimeItem, cpuUsageItem, memoryUsageItem,
          diskUsageItem, lastResponseTime, samplingTimer, latencyTimer, command,
          tick, probe, detail, infoShown, errorShown, lastInfo, lastError,
          lastTick, byteCount, formatted>>

\* the variables of the extension, without the formatBytes harness
extension == <<phase, remoteName, responseTimeItem, cpuUsageItem, memoryUsageItem,
               diskUsageItem, lastResponseTime, samplingTimer, latencyTimer,
               command, tick, probe, detail, infoShown, errorShown, lastInfo,
               lastError, lastTick>>

items == <<responseTimeItem, cpuUsageItem, memoryUsageItem, diskUsageItem>>

hostUi == <<infoShown, errorShown, lastInfo, lastError>>

\* --------------------------------------------------------- status bar items
\* item.text: "$(glyph) <v with d decimals><unit>"
Text(glyph, r) == [glyph |-> glyph, v |-> r.v, d |-> r.d, unit |-> r.unit]

NoText == Text("", Lit(""))

ErrorText == Text("error", Lit("Error"))

UnmeasurableText == Text("warning", Lit("--ms"))

\* a tooltip is its sequence of lines, each a label and a rendered value
Line(label, r) == [label |-> label, v |-> r.v, d |-> r.d, unit |-> r.unit]

\* a variable declared with let and not assigned yet
NoItem == [created |-> FALSE, text |-> NoText, tooltip |-> <<>>,
           command |-> "", visible |-> FALSE, disposed |-> FALSE]

\* vscode.window.createStatusBarItem, then the command and tooltip
\* assignments and show()
createStatusBarItem(tooltip) ==
    [created |-> TRUE, text |-> NoText, tooltip |-> <<Line(tooltip, Lit(""))>>,
     command |-> "vscode-sysinfo.showDetails", visible |-> TRUE, disposed |-> FALSE]

hide(item) == [item EXCEPT !.visible = FALSE]

dispose(item) == [item EXCEPT !.disposed = TRUE]

\* what the host draws: an item shown and not disposed
Displayed(item) == item.created /\ item.visible /\ ~item.disposed

\* -------------------------------------------------------------- formatting
\* a / b * 100 and friends on byte counts: common low zero digits cancel
RECURSIVE StripCommon(_, _)
StripCommon(a, b) ==
    IF a # <<>> /\ b # <<>> /\ Head(a) = 0 /\ Head(b) = 0
    THEN StripCommon(Tail(a), Tail(b))
    ELSE <<a, b>>

\* (a / b * 100).toFixed(1)
Percentage(a, b) ==
    LET ab == StripCommon(a, b)
    IN  toFixedQ(100 * Value(ab[1]), Value(ab[2]), 1)

\* disk[0] || { fs: 'N/A', type: 'N/A', size: 0, used: 0, use: 0, mount: 'N/A' }
DefaultDisk == [fs |-> "N/A", type |-> "N/A", size |-> <<>>, used |-> <<>>,
                use |-> 0, mount |-> "N/A"]

MainDisk(disk) == IF disk # <<>> THEN disk[1] ELSE DefaultDisk

\* s || 'N/A' on a string
OrNA(str) == IF str = "" THEN "N/A" ELSE str

\* the strings updateStatusBar computes from one sample
cpuPercentage(cpu) == toFixed(cpu.currentLoad, 1)

memPercentage(mem) == Percentage(mem.used, mem.total)

diskPercentage(disk) ==
    IF Truthy(MainDisk(disk).use) THEN toFixed(MainDisk(disk).use, 1) ELSE Lit("0")

WithUnit(r, unit) == R(r.v, r.d, r.unit \o unit)

ResponseText(glyph, time) == Text(glyph, WithUnit(toFixed(time, 2), "ms"))

CpuText(cpu) == Text("pulse", WithUnit(cpuPercentage(cpu), "%"))

MemoryText(mem) == Text("server", WithUnit(memPercentage(mem), "%"))

DiskText(disk) == Text("database", WithUnit(diskPercentage(disk), "%"))

CpuTooltip(cpu) ==
    << Line("cpu", WithUnit(cpuPercentage(cpu), "%")),
       Line("user", WithUnit(toFixed(cpu.currentLoadUser, 1), "%")),
       Line("system", WithUnit(toFixed(cpu.currentLoadSystem, 1), "%")),
       Line("avgLoad", toFixed(cpu.avgLoad, 2)) >>

MemoryTooltip(mem) ==
    << Line("memory", WithUnit(memPercentage(mem), "%")),
       Line("total", formatBytes(mem.total)),
       Line("used", formatBytes(mem.used)),
       Line("available", formatBytes(mem.available)) >>

DiskTooltip(disk) ==
    LET mainDisk == MainDisk(disk)
    IN  << Line("disk", WithUnit(diskPercentage(disk), "%")),
           Line("size", formatBytes(mainDisk.size)),
           Line("used", formatBytes(mainDisk.used)),
           Line("free", formatBytes(Minus(mainDisk.size, mainDisk.used))),
           Line("mount", Lit(OrNA(mainDisk.mount))) >>

RemoteTooltip(latency, remote) ==
    << Line("latency", WithUnit(toFixed(latency, 2), "ms")),
       Line("remote", Lit(remote)) >>

UnmeasurableTooltip == << Line("unmeasurable", Lit("")) >>

\* mutant: the swap percentage computed without the guard on swaptotal
SwapPercentageUnguarded(mem) == Percentage(mem.swapused, mem.swaptotal)

\* the swap percentage of the detail view:
\* swaptotal > 0 ? (swapused / swaptotal * 100).toFixed(1) : 0
SwapPercentage(mem) ==
    IF mem.swaptotal # <<>> THEN Percentage(mem.swapused, mem.swaptotal)
    ELSE Lit("0")

\* cpuTemp.main ? cpuTemp.main.toFixed(1) + '°C' : 'N/A'
Temperature(cpuTemp) ==
    IF Truthy(cpuTemp.main) THEN WithUnit(toFixed(cpuTemp.main, 1), "C")
    ELSE Lit("N/A")

\* mainDisk.use ? mainDisk.use.toFixed(1) : 0
DetailDiskPercentage(disk) ==
    IF Truthy(MainDisk(disk).use) THEN toFixed(MainDisk(disk).use, 1) ELSE Lit("0")

\* (bytes / 1024 / 1024 / 1024).toFixed(2) + 'GB'
GB(size) == R(Hundredths(size, 3), 2, "GB")

NoDetail == <<>>

\* the five sections of the detail block, as the lines each one holds
formatDetailedInfo(cpu, mem, disk, osInfo, cpuTemp, time) ==
    LET mainDisk == MainDisk(disk)
    IN  << << Line("Response Time", WithUnit(toFixed(time, 2), "ms")) >>,
           << Line("CPU", WithUnit(toFixed(cpu.currentLoad, 1), "%")),
              Line("Avg", WithUnit(toFixed(cpu.avgLoad, 1), "%")),
              Line("Cores", R(cpu.cpus, 0, "")),
              Line("User", WithUnit(toFixed(cpu.currentLoadUser, 1), "%")),
              Line("System", WithUnit(toFixed(cpu.currentLoadSystem, 1), "%")),
              Line("Temperature", Temperature(cpuTemp)) >>,
           << Line("Memory Usage", formatBytes(mem.used)),
              Line("Memory Total", formatBytes(mem.total)),
              Line("Memory %", WithUnit(memPercentage(mem), "%")),
              Line("Active", formatBytes(mem.active)),
              Line("Available", formatBytes(mem.available)),
              Line("Free", formatBytes(mem.free)),
              Line("Cached", formatBytes(mem.cached)),
              Line("Buffers", formatBytes(mem.buffers)),
              Line("Swap Used", formatBytes(mem.swapused)),
              Line("Swap Total", formatBytes(mem.swaptotal)),
              Line("Swap %", WithUnit(SwapPercentage(mem), "%")) >>,
           << Line("Disk", GB(mainDisk.used)),
              Line("Disk Total", GB(mainDisk.size)),
              Line("Disk %", WithUnit(DetailDiskPercentage(disk), "%")),
              Line("Mount", Lit(OrNA(mainDisk.mount))),
              Line("FS", Lit(OrNA(mainDisk.fs))) >>,
           << Line("OS", Lit(osInfo.platform)),
              Line("Distro", Lit(osInfo.distro)),
              Line("Release", Lit(osInfo.release)),
              Line("Kernel", Lit(osInfo.kernel)),
              Line("Arch", Lit(osInfo.arch)),
              Line("Hostname", Lit(osInfo.hostname)) >> >>

\* ------------------------------------------------------------ invocations
\* One invocation of an async function: where it stands (pc), the duration
\* it has measured (endTime - startTime) and the message of the error its
\* catch clause received.
\*   "idle"       not started, or an updateStatusBar call that has completed
\*                (what it did is in lastTick)
\*   "awaitTime"  updateStatusBar suspended at  await si.time()
\*   "awaitAll"   suspended at  await Promise.all([...])
\*   "returned"   completed through the try block
\*   "caught"     completed through the catch block
\*   "threw"      completed with a rejection nobody handles
IdleCall == [pc |-> "idle", elapsed |-> 0, error |-> "none"]

Started(pc) == [pc |-> pc, elapsed |-> 0, error |-> "none"]

\* a call that has completed through its try block
Returned == [pc |-> "returned", elapsed |-> 0, error |-> "none"]

\* a call that has completed through its catch block
Caught(error) == [pc |-> "caught", elapsed |-> 0, error |-> error]

Free(call) == call.pc \in {"idle", "returned", "caught", "threw"}

InFlight(call) == ~Free(call)

Ticks == 1..MaxTicks

Probes == 1..MaxProbes

Details == 1..MaxDetails

Max(a, b) == IF a >= b THEN a ELSE b

\* a new invocation takes the first record that is free
FirstFree(calls, c) == Free(calls[c]) /\ \A b \in 1..(c - 1) : InFlight(calls[b])

NoTick == [outcome |-> "none", texts |-> <<NoText, NoText, NoText, NoText>>]

\* history: the outcome of the tick completing in this step and the four
\* texts the items carry as it completes
TickCompleted(outcome) ==
    lastTick' = [outcome |-> outcome,
                 texts |-> <<responseTimeItem'.text, cpuUsageItem'.text,
                             memoryUsageItem'.text, diskUsageItem'.text>>]

\* ------------------------------------------------------------------- Init
NotFormatted == Lit("")

\* the module is loaded and activate has not run
Loaded ==
    /\ phase = "loaded"
    /\ responseTimeItem = NoItem
    /\ cpuUsageItem = NoItem
    /\ memoryUsageItem = NoItem
    /\ diskUsageItem = NoItem
    /\ lastResponseTime = 0
    /\ samplingTimer = FALSE
    /\ latencyTimer = FALSE
    /\ command = FALSE
    /\ tick = [t \in Ticks |-> IdleCall]
    /\ probe = [p \in Probes |-> IdleCall]
    /\ detail = [i \in Details |-> IdleCall]
    /\ infoShown = 0
    /\ errorShown = 0
    /\ lastInfo = NoDetail
    /\ lastError = ""
    /\ lastTick = NoTick

Init ==
    /\ Loaded
    /\ remoteName \in RemoteNames
    /\ byteCount = <<>>
    /\ formatted = NotFormatted

\* --------------------------------------------------------------- activate
\* The part of activate after the items exist: the first updateStatusBar()
\* call (it runs to its first await), the sampling timer, then the remote
\* branch: a first measureRemoteLatency() call and the latency timer, or
\* hide() on the response time item.
StartSampling ==
    /\ tick' = [tick EXCEPT ![1] = Started("awaitTime")]
    /\ samplingTimer' = TRUE

\* mutant: the local branch forgets to hide the response time item
RemoteBranchNoHide ==
    IF remoteName # Undefined
    THEN /\ responseTimeItem' = createStatusBarItem("Response Time")
         /\ probe' = [probe EXCEPT ![1] = Started("awaitAll")]
         /\ latencyTimer' = TRUE
    ELSE /\ responseTimeItem' = createStatusBarItem("Response Time")
         /\ UNCHANGED <<probe, latencyTimer>>

RemoteBranch ==
    IF remoteName # Undefined
    THEN /\ responseTimeItem' = createStatusBarItem("Response Time")
         /\ probe' = [probe EXCEPT ![1] = Started("awaitAll")]
         /\ latencyTimer' = TRUE
    ELSE /\ responseTimeItem' = hide(createStatusBarItem("Response Time"))
         /\ UNCHANGED <<probe, latencyTimer>>

activate ==
    /\ phase = "loaded"
    /\ phase' = "active"
    /\ cpuUsageItem' = createStatusBarItem("CPU Usage")
    /\ memoryUsageItem' = createStatusBarItem("Memory Usage")
    /\ diskUsageItem' = createStatusBarItem("Disk Usage")
    /\ command' = TRUE
    /\ StartSampling
    /\ RemoteBranch
    /\ UNCHANGED <<remoteName, lastResponseTime, detail, hostUi, lastTick, byteCount, formatted>>

\* -------------------------------------------------------- updateStatusBar
\* mutant: the timer callback abandons the runs still in flight before it
\* starts the next
TimerFireCancel(t) ==
    /\ samplingTimer
    /\ FirstFree(tick, t)
    /\ tick' = [u \in Ticks |-> IF u = t THEN Started("awaitTime") ELSE IdleCall]
    /\ UNCHANGED <<phase, remoteName, items, lastResponseTime, samplingTimer,
                   latencyTimer, command, probe, detail, hostUi, lastTick, byteCount, formatted>>

\* mutant: the timer callback skips its run while an earlier one is in
\* flight
TimerFireSerial(t) ==
    /\ samplingTimer
    /\ \A u \in Ticks : Free(tick[u])
    /\ FirstFree(tick, t)
    /\ tick' = [tick EXCEPT ![t] = Started("awaitTime")]
    /\ UNCHANGED <<phase, remoteName, items, lastResponseTime, samplingTimer,
                   latencyTimer, command, probe, detail, hostUi, lastTick, byteCount, formatted>>

\* the sampling timer fires: updateStatusBar() runs to  await si.time()
TimerFire(t) ==
    /\ samplingTimer
    /\ FirstFree(tick, t)
    /\ tick' = [tick EXCEPT ![t] = Started("awaitTime")]
    /\ UNCHANGED <<phase, remoteName, items, lastResponseTime, samplingTimer,
                   latencyTimer, command, probe, detail, hostUi, lastTick, byteCount, formatted>>

\* mutant: the tick looks at the flag again and shows or hides the response
\* time item to match it
TickWriteRecheck(t, cpu, mem, disk) ==
    /\ responseTimeItem' =
           [responseTimeItem EXCEPT !.text = ResponseText("cloud-upload", lastResponseTime),
                                    !.visible = (remoteName # Undefined)]
    /\ cpuUsageItem' =
           [cpuUsageItem EXCEPT !.text = CpuText(cpu), !.tooltip = CpuTooltip(cpu)]
    /\ memoryUsageItem' =
           [memoryUsageItem EXCEPT !.text = MemoryText(mem), !.tooltip = MemoryTooltip(mem)]
    /\ diskUsageItem' =
           [diskUsageItem EXCEPT !.text = DiskText(disk), !.tooltip = DiskTooltip(disk)]
    /\ tick' = [tick EXCEPT ![t] = IdleCall]

\* mutant: the measurement stays in the invocation, lastResponseTime is not
\* assigned
TimeResolveLocal(t, d) ==
    /\ tick[t].pc = "awaitTime"
    /\ tick' = [tick EXCEPT ![t] = [@ EXCEPT !.pc = "awaitAll", !.elapsed = d]]
    /\ UNCHANGED <<phase, remoteName, items, lastResponseTime, samplingTimer,
                   latencyTimer, command, probe, detail, hostUi, lastTick, byteCount,
                   formatted>>

\* mutant: the response time item is written as soon as the time is
\* measured, before the tick completes
TimeResolveEager(t, d) ==
    /\ tick[t].pc = "awaitTime"
    /\ lastResponseTime' = d
    /\ responseTimeItem' =
           [responseTimeItem EXCEPT !.text = ResponseText("cloud-upload", d)]
    /\ tick' = [tick EXCEPT ![t] = [@ EXCEPT !.pc = "awaitAll", !.elapsed = d]]
    /\ UNCHANGED <<phase, remoteName, cpuUsageItem, memoryUsageItem, diskUsageItem,
                   samplingTimer, latencyTimer, command, probe, detail, hostUi,
                   lastTick, byteCount, formatted>>

\* si.time() resolves after d microseconds: lastResponseTime is assigned
\* and the three fetches start
TimeResolve(t, d) ==
    /\ tick[t].pc = "awaitTime"
    /\ lastResponseTime' = d
    /\ tick' = [tick EXCEPT ![t] = [@ EXCEPT !.pc = "awaitAll", !.elapsed = d]]
    /\ UNCHANGED <<phase, remoteName, items, samplingTimer, latencyTimer,
                   command, probe, detail, hostUi, lastTick, byteCount, formatted>>

\* mutant: the catch block resets the tooltips as well
TickCatchResetTooltips(t, error) ==
    /\ responseTimeItem' = [responseTimeItem EXCEPT !.text = ErrorText, !.tooltip = <<>>]
    /\ cpuUsageItem' = [cpuUsageItem EXCEPT !.text = ErrorText, !.tooltip = <<>>]
    /\ memoryUsageItem' = [memoryUsageItem EXCEPT !.text = ErrorText, !.tooltip = <<>>]
    /\ diskUsageItem' = [diskUsageItem EXCEPT !.text = ErrorText, !.tooltip = <<>>]
    /\ tick' = [tick EXCEPT ![t] = IdleCall]

\* mutant: the catch block forgets the disk item
TickCatchPartial(t, error) ==
    /\ responseTimeItem' = [responseTimeItem EXCEPT !.text = ErrorText]
    /\ cpuUsageItem' = [cpuUsageItem EXCEPT !.text = ErrorText]
    /\ memoryUsageItem' = [memoryUsageItem EXCEPT !.text = ErrorText]
    /\ UNCHANGED diskUsageItem
    /\ tick' = [tick EXCEPT ![t] = IdleCall]

\* the catch block of updateStatusBar: console.error(error), then the texts
TickCatch(t, error) ==
    /\ responseTimeItem' = [responseTimeItem EXCEPT !.text = ErrorText]
    /\ cpuUsageItem' = [cpuUsageItem EXCEPT !.text = ErrorText]
    /\ memoryUsageItem' = [memoryUsageItem EXCEPT !.text = ErrorText]
    /\ diskUsageItem' = [diskUsageItem EXCEPT !.text = ErrorText]
    /\ tick' = [tick EXCEPT ![t] = IdleCall]

\* si.time() rejects
TimeReject(t) ==
    /\ tick[t].pc = "awaitTime"
    /\ TickCatch(t, Message("time"))
    /\ TickCompleted("caught")
    /\ UNCHANGED <<phase, remoteName, lastResponseTime, samplingTimer,
                   latencyTimer, command, probe, detail, hostUi, byteCount, formatted>>

\* the rest of the try block, once the three fetches have resolved
TickWrite(t, cpu, mem, disk) ==
    /\ responseTimeItem' =
           [responseTimeItem EXCEPT !.text = ResponseText("cloud-upload", lastResponseTime)]
    /\ cpuUsageItem' =
           [cpuUsageItem EXCEPT !.text = CpuText(cpu), !.tooltip = CpuTooltip(cpu)]
    /\ memoryUsageItem' =
           [memoryUsageItem EXCEPT !.text = MemoryText(mem), !.tooltip = MemoryTooltip(mem)]
    /\ diskUsageItem' =
           [diskUsageItem EXCEPT !.text = DiskText(disk), !.tooltip = DiskTooltip(disk)]
    /\ tick' = [tick EXCEPT ![t] = IdleCall]

AllResolve(t, cpu, mem, disk) ==
    /\ tick[t].pc = "awaitAll"
    /\ TickWrite(t, cpu, mem, disk)
    /\ TickCompleted("returned")
    /\ UNCHANGED <<phase, remoteName, lastResponseTime, samplingTimer,
                   latencyTimer, command, probe, detail, hostUi, byteCount, formatted>>

\* mutant: no catch clause around the fetches, the rejection leaves the call
AllRejectUnhandled(t, f) ==
    /\ tick[t].pc = "awaitAll"
    /\ tick' = [tick EXCEPT ![t] = [pc |-> "threw", elapsed |-> 0, error |-> Message(f)]]
    /\ UNCHANGED <<phase, remoteName, items, lastResponseTime, samplingTimer,
                   latencyTimer, command, probe, detail, hostUi, lastTick,
                   byteCount, formatted>>

\* Promise.all rejects with the error of the fetch f that rejected first
AllReject(t, f) ==
    /\ tick[t].pc = "awaitAll"
    /\ TickCatch(t, Message(f))
    /\ TickCompleted("caught")
    /\ UNCHANGED <<phase, remoteName, lastResponseTime, samplingTimer,
                   latencyTimer, command, probe, detail, hostUi, byteCount, formatted>>

\* --------------------------------------------------- measureRemoteLatency
\* the latency timer fires: measureRemoteLatency() runs to its await
LatencyTimerFire(p) ==
    /\ latencyTimer
    /\ FirstFree(probe, p)
    /\ probe' = [probe EXCEPT ![p] = Started("awaitAll")]
    /\ UNCHANGED <<phase, remoteName, items, lastResponseTime, samplingTimer,
                   latencyTimer, command, tick, detail, hostUi, lastTick, byteCount, formatted>>

\* Promise.all over the two stat calls and the pause, all three started
\* together: it resolves when the slowest of them has
Elapsed(d1, d2) == Max(Max(d1, PAUSE_MS * 1000), d2)

\* mutant: the elapsed time is reported undivided
LatencyWhole(elapsed) == elapsed

\* (endTime - startTime) / 2
Latency(elapsed) == elapsed \div 2

ProbeWrite(p, latency) ==
    /\ responseTimeItem' =
           [responseTimeItem EXCEPT !.text = ResponseText("broadcast", latency),
                                    !.tooltip = RemoteTooltip(latency, remoteName)]
    /\ lastResponseTime' = latency
    /\ probe' = [probe EXCEPT ![p] = Returned]
    /\ UNCHANGED <<cpuUsageItem, memoryUsageItem, diskUsageItem>>

ProbeResolve(p, d1, d2) ==
    /\ probe[p].pc = "awaitAll"
    /\ ProbeWrite(p, Latency(Elapsed(d1, d2)))
    /\ UNCHANGED <<phase, remoteName, samplingTimer, latencyTimer, command,
                   tick, detail, hostUi, lastTick, byteCount, formatted>>

\* mutant: the catch block marks all four items, as updateStatusBar's does
ProbeCatchAll(p) ==
    /\ responseTimeItem' =
           [responseTimeItem EXCEPT !.text = UnmeasurableText,
                                    !.tooltip = UnmeasurableTooltip]
    /\ cpuUsageItem' = [cpuUsageItem EXCEPT !.text = ErrorText]
    /\ memoryUsageItem' = [memoryUsageItem EXCEPT !.text = ErrorText]
    /\ diskUsageItem' = [diskUsageItem EXCEPT !.text = ErrorText]
    /\ probe' = [probe EXCEPT ![p] = Caught(Message("stat"))]
    /\ UNCHANGED lastResponseTime

\* mutant: the catch block stores the null it returns as the last response
\* time
ProbeCatchNull(p) ==
    /\ responseTimeItem' =
           [responseTimeItem EXCEPT !.text = UnmeasurableText,
                                    !.tooltip = UnmeasurableTooltip]
    /\ probe' = [probe EXCEPT ![p] = Caught(Message("stat"))]
    /\ lastResponseTime' = Null
    /\ UNCHANGED <<cpuUsageItem, memoryUsageItem, diskUsageItem>>

\* the catch block of measureRemoteLatency
ProbeCatch(p) ==
    /\ responseTimeItem' =
           [responseTimeItem EXCEPT !.text = UnmeasurableText,
                                    !.tooltip = UnmeasurableTooltip]
    /\ probe' = [probe EXCEPT ![p] = Caught(Message("stat"))]
    /\ UNCHANGED <<cpuUsageItem, memoryUsageItem, diskUsageItem, lastResponseTime>>

\* one of the stat calls rejects
ProbeReject(p) ==
    /\ probe[p].pc = "awaitAll"
    /\ ProbeCatch(p)
    /\ UNCHANGED <<phase, remoteName, samplingTimer, latencyTimer, command,
                   tick, detail, hostUi, lastTick, byteCount, formatted>>

\* ------------------------------------------- vscode-sysinfo.showDetails
Shown == infoShown + errorShown

InFlightDetails == Cardinality({i \in Details : InFlight(detail[i])})

\* the user clicks an item: the command callback runs to its await
showDetails(i) ==
    /\ command
    /\ FirstFree(detail, i)
    /\ Shown + InFlightDetails < MaxShown
    /\ detail' = [detail EXCEPT ![i] = Started("awaitAll")]
    /\ UNCHANGED <<phase, remoteName, items, lastResponseTime, samplingTimer,
                   latencyTimer, command, tick, probe, hostUi, lastTick, byteCount, formatted>>

\* vscode.window.showInformationMessage('System Information', {detail, modal})
showInformationMessage(info) ==
    /\ infoShown' = infoShown + 1
    /\ lastInfo' = info
    /\ UNCHANGED <<errorShown, lastError>>

ErrorPrefix == "Error fetching system information: "

\* vscode.window.showErrorMessage(`Error fetching system information: ${message}`)
showErrorMessage(message) ==
    /\ errorShown' = errorShown + 1
    /\ lastError' = ErrorPrefix \o message
    /\ UNCHANGED <<infoShown, lastInfo>>

\* a value with a toFixed method
IsNumber(x) == x \in Nat

\* mutant: the catch block reports a fixed text instead of error.message
DetailCatchNoMessage(i, error) ==
    /\ showErrorMessage("")
    /\ detail' = [detail EXCEPT ![i] = Caught(error)]

\* the catch block of the command callback
DetailCatch(i, error) ==
    /\ showErrorMessage(error)
    /\ detail' = [detail EXCEPT ![i] = Caught(error)]

\* the try block after the five fetches have resolved; formatDetailedInfo
\* calls lastResponseTime.toFixed(2) and throws a TypeError into the catch
\* block when lastResponseTime is null
DetailTry(i, cpu, mem, disk, osInfo, cpuTemp) ==
    IF IsNumber(lastResponseTime)
    THEN /\ showInformationMessage(
                formatDetailedInfo(cpu, mem, disk, osInfo, cpuTemp, lastResponseTime))
         /\ detail' = [detail EXCEPT ![i] = Returned]
    ELSE DetailCatch(i, Message("TypeError"))

DetailResolve(i, cpu, mem, disk, osInfo, cpuTemp) ==
    /\ detail[i].pc = "awaitAll"
    /\ DetailTry(i, cpu, mem, disk, osInfo, cpuTemp)
    /\ UNCHANGED <<phase, remoteName, items, lastResponseTime, samplingTimer,
                   latencyTimer, command, tick, probe, lastTick, byteCount, formatted>>

DetailReject(i, f) ==
    /\ detail[i].pc = "awaitAll"
    /\ DetailCatch(i, Message(f))
    /\ UNCHANGED <<phase, remoteName, items, lastResponseTime, samplingTimer,
                   latencyTimer, command, tick, probe, lastTick, byteCount, formatted>>

\* ------------------------------------------------------------- deactivate
\* what disposing context.subscriptions clears: the command and the latency
\* timer (the sampling timer was never pushed there)
DisposeSubscriptions ==
    /\ command' = FALSE
    /\ latencyTimer' = FALSE
    /\ UNCHANGED samplingTimer

\* shutdown: deactivate() disposes the four items, then the host disposes
\* context.subscriptions
deactivate ==
    /\ phase = "active"
    /\ phase' = "deactivated"
    /\ responseTimeItem' = dispose(responseTimeItem)
    /\ cpuUsageItem' = dispose(cpuUsageItem)
    /\ memoryUsageItem' = dispose(memoryUsageItem)
    /\ diskUsageItem' = dispose(diskUsageItem)
    /\ DisposeSubscriptions
    /\ UNCHANGED <<remoteName, lastResponseTime, tick, probe, detail, hostUi,
                   lastTick, byteCount, formatted>>

\* ------------------------------------------------------------------- Spec
\* the sampler between activation and shutdown: the two timers and their
\* callbacks
NextRunning ==
    \/ activate
    \/ \E t \in Ticks : TimerFire(t)
    \/ \E t \in Ticks, d \in Durations : TimeResolve(t, d)
    \/ \E t \in Ticks : TimeReject(t)
    \/ \E t \in Ticks, s \in Snapshots : AllResolve(t, s.cpu, s.mem, s.disk)
    \/ \E t \in Ticks, f \in TickFetches : AllReject(t, f)
    \/ \E p \in Probes : LatencyTimerFire(p)
    \/ \E p \in Probes, d1 \in StatDurations, d2 \in StatDurations :
           ProbeResolve(p, d1, d2)
    \/ \E p \in Probes : ProbeReject(p)

\* the sampler: activation, the two timers and their callbacks, shutdown
NextSampler == NextRunning \/ deactivate

\* the detail command
NextCommand ==
    \/ \E i \in Details : showDetails(i)
    \/ \E i \in Details, s \in Snapshots :
           DetailResolve(i, s.cpu, s.mem, s.disk, s.osInfo, s.cpuTemp)
    \/ \E i \in Details, f \in DetailFetches : DetailReject(i, f)

Next == NextSampler \/ NextCommand

\* the whole extension
Spec == Init /\ [][Next]_vars

\* The extension with a user who never invokes the command.  The command
\* callback assigns detail and the notification variables only, and no
\* action of the sampler reads those: what the sampler does is the same with
\* and without it.
SpecSampler == Init /\ [][NextSampler]_vars

\* ------------------------------------------------- formatBytes on its own
\* byte counts of up to MaxDigits base-1024 digits: around the unit
\* boundaries (digits 0, 1, 1023) and around the rounding steps (6, 512)
Digits == {0, 1, 6, 512, 1023}

RECURSIVE DigitSeqs(_)
DigitSeqs(n) ==
    IF n = 0 THEN {<<>>}
    ELSE {ds \o <<d>> : ds \in DigitSeqs(n - 1), d \in Digits}

\* no leading zero digit
ByteCounts ==
    {<<>>} \cup UNION {{ds \o <<d>> : ds \in DigitSeqs(n), d \in Digits \ {0}} :
                         n \in 0..(MaxDigits - 1)}

InitBytes ==
    /\ Loaded
    /\ remoteName = Undefined
    /\ byteCount \in ByteCounts
    /\ formatted = NotFormatted

Format ==
    /\ formatted = NotFormatted
    /\ formatted' = formatBytes(byteCount)
    /\ UNCHANGED <<extension, byteCount>>

NextBytes == Format

SpecBytes == InitBytes /\ [][NextBytes]_vars

\* ------------------------------------ the sampler under a changing flag
\* The extension from activation up to shutdown in a host whose
\* vscode.env.remoteName changes; the extension is not told.
RemoteNameChanges ==
    /\ remoteName' \in RemoteNames \ {remoteName}
    /\ UNCHANGED <<phase, items, lastResponseTime, samplingTimer, latencyTimer,
                   command, tick, probe, detail, hostUi, lastTick, byteCount,
                   formatted>>

NextEnv == NextRunning \/ RemoteNameChanges

SpecEnv == Init /\ [][NextEnv]_vars

\* ------------------------------------------- the sampler on more samples
\* The sampler in local mode with a provider that answers every call, on a
\* wider range of answers: a list whose first filesystem is empty (use 0)
\* followed by a used one, and a list of two used filesystems.
EmptyFirst == << [fs |-> "tmpfs", type |-> "tmpfs", size |-> <<0, 0, 1>>,
                  used |-> <<>>, use |-> 0, mount |-> "/run"],
                 [fs |-> "/dev/sda1", type |-> "ext4", size |-> <<0, 0, 0, 100>>,
                  used |-> <<0, 0, 512, 42>>, use |-> 42500, mount |-> "/"] >>

TwoDisks == OneDisk \o << [fs |-> "/dev/sdb1", type |-> "ext4",
                            size |-> <<0, 0, 0, 10>>, used |-> <<0, 0, 0, 9>>,
                            use |-> 90040, mount |-> "/data"] >>

SampleCpus == {CpuLight, CpuBusy}

SampleMems == {MemNoSwap, MemSwap}

SampleDisks == {NoDisks, EmptyFirst, TwoDisks}

InitLocal ==
    /\ Loaded
    /\ remoteName = Undefined
    /\ byteCount = <<>>
    /\ formatted = NotFormatted

NextSamples ==
    \/ activate
    \/ \E t \in Ticks : TimerFire(t)
    \/ \E t \in Ticks, d \in Durations : TimeResolve(t, d)
    \/ \E t \in Ticks, cpu \in SampleCpus, mem \in SampleMems, disk \in SampleDisks :
           AllResolve(t, cpu, mem, disk)

SpecSamples == InitLocal /\ [][NextSamples]_vars

\* ------------------------------------------------------------------ claims
texts == <<responseTimeItem.text, cpuUsageItem.text, memoryUsageItem.text,
           diskUsageItem.text>>

Remote == remoteName # Undefined

\* this step completes invocation c of calls
Completes(calls, c) == InFlight(calls[c]) /\ Free(calls'[c])

\* this step starts invocation c of calls
Starts(calls, c) == Free(calls[c]) /\ InFlight(calls'[c])

\* C1: when a periodic tick whose fetch rejected completes, the text of all
\* four items is the error indicator: no item carries data of that tick.
C1_FailedTickAllError ==
    lastTick.outcome = "caught" => \A j \in 1..4 : lastTick.texts[j] = ErrorText

\* a tick failed after an earlier one had succeeded
C1_Witness ==
    /\ lastTick.outcome = "caught"
    /\ texts = <<ErrorText, ErrorText, ErrorText, ErrorText>>
    /\ cpuUsageItem.tooltip = CpuTooltip(CpuBusy)

\* C2 as claimed: once a tick has completed, the text of each of the four
\* items is the one the tick completed last wrote, whatever else has run.
C2_AllFourFromLastTick == lastTick.outcome # "none" => texts = lastTick.texts

\* C2 as amended: once a tick has completed, the CPU, memory and disk texts
\* are the ones the tick completed last wrote (the error indicator if it
\* failed); the response time text is that tick's too, unless a remote
\* latency probe has completed since and written it.
C2_LastTickWins ==
    lastTick.outcome # "none" =>
        /\ \A j \in 2..4 : texts[j] = lastTick.texts[j]
        /\ lastTick.outcome = "caught" => \A j \in 2..4 : texts[j] = ErrorText
        /\ \/ texts[1] = lastTick.texts[1]
           \/ Remote /\ texts[1].glyph \in {"broadcast", "warning"}

\* two ticks overlap after a tick has completed, in remote mode with a
\* probe's text on the response time item
C2_Witness ==
    /\ lastTick.outcome = "returned"
    /\ tick[1].pc = "awaitAll"
    /\ tick[2].pc = "awaitAll"
    /\ texts[1].glyph = "broadcast"
    /\ texts[2] = CpuText(CpuLight)

\* C3: after shutdown no timer started by activate is left and no new
\* periodic tick or remote probe starts.
C3_ShutdownClearsTimers ==
    [][phase = "deactivated" =>
          /\ ~samplingTimer /\ ~latencyTimer
          /\ \A t \in Ticks : ~Starts(tick, t)
          /\ \A p \in Probes : ~Starts(probe, p)]_vars

\* C4: in local mode, from the return of activate on, the response time
\* item is hidden, there is no latency timer and no remote probe, and the
\* CPU, memory and disk texts are those of the tick completed last.
C4_LocalMode ==
    (~Remote /\ phase # "loaded") =>
        /\ ~responseTimeItem.visible
        /\ ~Displayed(responseTimeItem)
        /\ ~latencyTimer
        /\ \A p \in Probes : probe[p].pc = "idle"
        /\ samplingTimer
        /\ lastTick.outcome # "none" => \A j \in 2..4 : texts[j] = lastTick.texts[j]

\* local mode, a tick has written all four texts and the next is in flight
C4_Witness ==
    /\ ~Remote
    /\ phase = "active"
    /\ lastTick.outcome = "returned"
    /\ texts[1] = ResponseText("cloud-upload", 20000)
    /\ texts[4] = DiskText(OneDisk)
    /\ tick[1].pc = "awaitAll"

\* C5: in remote mode, once a probe's latency is on the response time item,
\* that text and lastResponseTime change only when a remote probe completes.
C5_RemoteLatencyKept ==
    [][(Remote /\ texts[1].glyph = "broadcast"
          /\ (responseTimeItem'.text # responseTimeItem.text
                \/ lastResponseTime' # lastResponseTime))
         => \E p \in Probes : Completes(probe, p)]_vars

\* C6: a remote probe that fails puts the unmeasurable indicator, which is
\* not the error indicator, on the response time item and leaves the text
\* and tooltip of the CPU, memory and disk items as they were.
C6_ProbeFailureIsolated ==
    [][\A p \in Probes :
          (Completes(probe, p) /\ probe'[p].pc = "caught") =>
              /\ responseTimeItem'.text = UnmeasurableText
              /\ UnmeasurableText # ErrorText
              /\ cpuUsageItem' = cpuUsageItem
              /\ memoryUsageItem' = memoryUsageItem
              /\ diskUsageItem' = diskUsageItem]_vars

\* a probe has failed while the other three items carry a tick's data
C6_Witness ==
    /\ probe[1].pc = "caught"
    /\ texts[1] = UnmeasurableText
    /\ texts[2] = CpuText(CpuLight)
    /\ memoryUsageItem.tooltip = MemoryTooltip(MemNoSwap)

\* C7: an invocation of the detail command with a rejected fetch ends with
\* exactly one error notification carrying that rejection's message and no
\* information dialog; one whose five fetches resolved ends with exactly one
\* dialog holding the five sections and no error notification.
C7_DetailOutcome ==
    [][\A i \in Details :
          /\ \A f \in DetailFetches : DetailReject(i, f) => detail'[i] = Caught(Message(f))
          /\ Completes(detail, i) =>
                IF detail'[i].pc = "caught"
                THEN /\ errorShown' = errorShown + 1
                     /\ lastError' = ErrorPrefix \o detail'[i].error
                     /\ infoShown' = infoShown
                     /\ lastInfo' = lastInfo
                ELSE /\ detail'[i].pc = "returned"
                     /\ infoShown' = infoShown + 1
                     /\ Len(lastInfo') = 5
                     /\ errorShown' = errorShown
                     /\ lastError' = lastError]_vars

\* the command failed on the temperature fetch
C7_Witness ==
    /\ detail[1] = Caught(Message("cpuTemperature"))
    /\ errorShown = 1
    /\ infoShown = 0
    /\ lastError = ErrorPrefix \o Message("cpuTemperature")

NoneThrew ==
    /\ \A t \in Ticks : tick[t].pc # "threw"
    /\ \A p \in Probes : probe[p].pc # "threw"
    /\ \A i \in Details : detail[i].pc # "threw"

\* C8: a tick, a probe or a command never completes with an unhandled
\* rejection; a failed one leaves its placeholder (the error indicator on the
\* four items, the unmeasurable indicator, an error notification), and it
\* leaves the timers and the command in place.
C8_FailuresCaught ==
    [][/\ NoneThrew'
       /\ \A t \in Ticks :
             Completes(tick, t) =>
                 /\ lastTick'.outcome \in {"returned", "caught"}
                 /\ lastTick'.outcome = "caught" =>
                        texts' = <<ErrorText, ErrorText, ErrorText, ErrorText>>
                 /\ UNCHANGED <<samplingTimer, latencyTimer, command>>
       /\ \A p \in Probes :
             Completes(probe, p) =>
                 /\ probe'[p].pc \in {"returned", "caught"}
                 /\ probe'[p].pc = "caught" => responseTimeItem'.text = UnmeasurableText
                 /\ UNCHANGED <<samplingTimer, latencyTimer, command>>
       /\ \A i \in Details :
             Completes(detail, i) =>
                 /\ detail'[i].pc \in {"returned", "caught"}
                 /\ detail'[i].pc = "caught" => errorShown' = errorShown + 1
                 /\ UNCHANGED <<samplingTimer, latencyTimer, command>>]_vars

\* a probe and a command have failed, a tick has failed, and a later tick
\* is in flight
C8_Witness ==
    /\ probe[1].pc = "caught"
    /\ detail[1].pc = "caught"
    /\ lastTick.outcome = "caught"
    /\ texts[2] = ErrorText
    /\ tick[1].pc = "awaitAll"

LineOf(section, label) ==
    LET l == CHOOSE x \in {section[j] : j \in DOMAIN section} : x.label = label
    IN  R(l.v, l.d, l.unit)

\* C9: missing optional fields are rendered, not raised.  A detail view
\* whose fetches resolved returns and shows a dialog in which swap total 0
\* gives the swap percentage 0, an empty filesystem list gives the disk
\* percentage 0 and N/A for mount and filesystem, and no temperature
\* reading gives N/A; a tick whose fetches resolved with an empty
\* filesystem list returns with the disk text 0% and the mount N/A.
C9_MissingFieldsRendered ==
    [][\A s \in Snapshots :
          /\ \A i \in Details :
                DetailResolve(i, s.cpu, s.mem, s.disk, s.osInfo, s.cpuTemp) =>
                    /\ detail'[i].pc = "returned"
                    /\ errorShown' = errorShown
                    /\ s.mem.swaptotal = <<>> => LineOf(lastInfo'[3], "Swap %") = Lit("0%")
                    /\ s.disk = <<>> =>
                           /\ LineOf(lastInfo'[4], "Disk %") = Lit("0%")
                           /\ LineOf(lastInfo'[4], "Mount") = Lit("N/A")
                           /\ LineOf(lastInfo'[4], "FS") = Lit("N/A")
                    /\ s.cpuTemp.main = Null =>
                           LineOf(lastInfo'[2], "Temperature") = Lit("N/A")
          /\ \A t \in Ticks :
                AllResolve(t, s.cpu, s.mem, s.disk) =>
                    /\ lastTick'.outcome = "returned"
                    /\ s.disk = <<>> =>
                           /\ diskUsageItem'.text = Text("database", Lit("0%"))
                           /\ LineOf(diskUsageItem'.tooltip, "mount") = Lit("N/A")]_vars

\* the dialog and the disk item show a machine without swap, filesystems
\* and temperature sensor
C9_Witness ==
    /\ infoShown = 1
    /\ errorShown = 0
    /\ LineOf(lastInfo[3], "Swap %") = Lit("0%")
    /\ LineOf(lastInfo[4], "Disk %") = Lit("0%")
    /\ LineOf(lastInfo[2], "Temperature") = Lit("N/A")
    /\ diskUsageItem.text = Text("database", Lit("0%"))
    /\ lastTick.outcome = "returned"

UnitNames == {sizes[j] : j \in DOMAIN sizes}

\* the value formatBytes printed, in hundredths
PrintedHundredths(r) == r.v * Pow10(2 - r.d)

\* C10: for every byte count, formatBytes gives "0 Bytes" for 0 and
\* otherwise a value and a unit out of Bytes, KB, MB, GB, TB, the unit being
\* the one of index floor(log1024(bytes)) and the value being within 0.01
\* of bytes / 1024^index.
C10_FormatBytes ==
    formatted # NotFormatted =>
        IF byteCount = <<>> THEN formatted = Lit("0 Bytes")
        ELSE /\ formatted.unit \in UnitNames
             /\ formatted.unit = SizeName(Len(byteCount) - 1)
             /\ PrintedHundredths(formatted) - FloorHundredths(byteCount, Len(byteCount) - 1)
                    \in {0, 1}

\* v with one decimal is x (in thousandths) rounded to one decimal
RoundsTo1(v, x) == 100 * v - x \in -50..50

\* v with one decimal is 100 * a / b rounded to one decimal, for byte counts
RatioRoundsTo1(v, a, b) ==
    LET ab == StripCommon(a, b)
        d == v * Value(ab[2]) - 1000 * Value(ab[1])
    IN  2 * d <= Value(ab[2]) /\ -2 * d <= Value(ab[2])

Shows1(text, glyph) == text.glyph = glyph /\ text.d = 1 /\ text.unit = "%"

\* what C11 says of the CPU and memory items after a tick on cpu and mem
CpuMemShown(cpu, mem) ==
    /\ Shows1(cpuUsageItem'.text, "pulse")
    /\ RoundsTo1(cpuUsageItem'.text.v, cpu.currentLoad)
    /\ cpu.currentLoad = 23456 => cpuUsageItem'.text = Text("pulse", R(235, 1, "%"))
    /\ Shows1(memoryUsageItem'.text, "server")
    /\ RatioRoundsTo1(memoryUsageItem'.text.v, mem.used, mem.total)
    /\ (mem.used = <<0, 0, 0, 4>> /\ mem.total = <<0, 0, 0, 8>>) =>
           memoryUsageItem'.text = Text("server", R(500, 1, "%"))

\* C11: a tick whose fetches resolved shows the CPU load rounded
\* to one decimal, used/total*100 of the memory rounded to one decimal, and
\* the use percentage of the first filesystem rounded to one decimal, or 0
\* when there are no filesystems.
C11_PercentagesAsClaimed ==
    [][\A t \in Ticks :
          Completes(tick, t) =>
          \A cpu \in SampleCpus, mem \in SampleMems, disk \in SampleDisks :
          AllResolve(t, cpu, mem, disk) =>
              /\ CpuMemShown(cpu, mem)
              /\ IF disk = <<>> THEN diskUsageItem'.text = Text("database", Lit("0%"))
                 ELSE /\ Shows1(diskUsageItem'.text, "database")
                      /\ RoundsTo1(diskUsageItem'.text.v, disk[1].use)]_vars

\* what the code does instead: the disk item reads 0 (without decimals)
\* also when the use percentage of the first filesystem is 0
PercentagesZeroUse ==
    [][\A t \in Ticks :
          Completes(tick, t) =>
          \A cpu \in SampleCpus, mem \in SampleMems, disk \in SampleDisks :
          AllResolve(t, cpu, mem, disk) =>
              /\ CpuMemShown(cpu, mem)
              /\ IF disk = <<>> \/ disk[1].use = 0
                 THEN diskUsageItem'.text = Text("database", Lit("0%"))
                 ELSE /\ Shows1(diskUsageItem'.text, "database")
                      /\ RoundsTo1(diskUsageItem'.text.v, disk[1].use)]_vars

\* a tick has shown 23.456 as 23.5%, 4 GiB of 8 GiB as 50.0% and the first
\* of two filesystems as 42.5%
PercentagesShown ==
    /\ lastTick.outcome = "returned"
    /\ cpuUsageItem.text = Text("pulse", R(235, 1, "%"))
    /\ memoryUsageItem.text = Text("server", R(500, 1, "%"))
    /\ diskUsageItem.text = Text("database", R(425, 1, "%"))
    /\ LineOf(diskUsageItem.tooltip, "mount") = Lit("/")
    /\ diskUsageItem.tooltip = DiskTooltip(TwoDisks)

\* C12: in one remote-latency measurement the second round trip starts
\* after the first has completed and the pause has elapsed: the elapsed
\* time the latency is computed from is the sum of the first round trip, the
\* pause and the second round trip.
C12_RoundTripsSequential ==
    [][\A p \in Probes, d1 \in StatDurations, d2 \in StatDurations :
          ProbeResolve(p, d1, d2) =>
              lastResponseTime' = Latency(d1 + PAUSE_MS * 1000 + d2)]_vars

\* v with two decimals, in milliseconds, is x microseconds rounded
RoundsTo2(v, x) == 10 * v - x \in -5..5

\* C13: when a remote probe succeeds the latency is its elapsed time
\* divided by 2 (40 ms give 20.00ms); as it completes the text and the
\* tooltip of the response time item show that latency and lastResponseTime
\* is that latency.
C13_LatencyHalfElapsed ==
    [][\A p \in Probes, d1 \in StatDurations, d2 \in StatDurations :
          ProbeResolve(p, d1, d2) =>
              LET elapsed == Elapsed(d1, d2)
                  shown == responseTimeItem'.text
                  tip == responseTimeItem'.tooltip
              IN  /\ probe'[p].pc = "returned"
                  /\ 2 * lastResponseTime' = elapsed
                  /\ shown.glyph = "broadcast" /\ shown.d = 2 /\ shown.unit = "ms"
                  /\ RoundsTo2(shown.v, lastResponseTime')
                  /\ elapsed = 40000 => shown = Text("broadcast", R(2000, 2, "ms"))
                  /\ LineOf(tip, "latency") = R(shown.v, 2, "ms")
                  /\ LineOf(tip, "remote") = Lit(remoteName)]_vars

\* a probe that took 40 ms has completed; the item and lastResponseTime
\* carry 20.00 ms
C13_Witness ==
    /\ probe[1].pc = "returned"
    /\ responseTimeItem.text = Text("broadcast", R(2000, 2, "ms"))
    /\ LineOf(responseTimeItem.tooltip, "latency") = R(2000, 2, "ms")
    /\ lastResponseTime = 20000

\* C14: lastResponseTime is a number in every reachable state, also after
\* failed probes and failed ticks and before any measurement has completed:
\* a failing probe leaves it as it was, and a detail view whose fetches
\* resolved formats its response time section from it and does not raise.
C14_LastResponseTimeFormats ==
    /\ [](IsNumber(lastResponseTime))
    /\ [][/\ \A p \in Probes :
                (Completes(probe, p) /\ probe'[p].pc = "caught") =>
                    lastResponseTime' = lastResponseTime
          /\ \A i \in Details, s \in Snapshots :
                DetailResolve(i, s.cpu, s.mem, s.disk, s.osInfo, s.cpuTemp) =>
                    LET l == LineOf(lastInfo'[1], "Response Time")
                    IN  /\ detail'[i].pc = "returned"
                        /\ errorShown' = errorShown
                        /\ l.d = 2 /\ l.unit = "ms"
                        /\ RoundsTo2(l.v, lastResponseTime)]_vars

\* the probe and the first tick have failed before anything was measured,
\* and the detail view shows 0.00ms
C14_Witness ==
    /\ probe[1].pc = "caught"
    /\ lastTick.outcome = "caught"
    /\ lastResponseTime = 0
    /\ detail[1].pc = "returned"
    /\ LineOf(lastInfo[1], "Response Time") = R(0, 2, "ms")

\* C15: the mode is decided in activate from the flag: the latency timer and
\* the first probe are started and the response time item is left shown
\* exactly when the flag is set.  From then on, whatever the flag becomes,
\* the item is neither shown nor hidden, the latency timer is neither
\* started nor stopped, and no probe starts without the timer; a change of
\* the flag changes nothing else.
C15_ModeDecidedOnce ==
    [][/\ activate =>
             /\ latencyTimer' = Remote
             /\ responseTimeItem'.visible = Remote
             /\ InFlight(probe'[1]) = Remote
       /\ phase # "loaded" =>
             /\ responseTimeItem'.visible = responseTimeItem.visible
             /\ latencyTimer' = latencyTimer
             /\ ~latencyTimer => \A p \in Probes : ~Starts(probe, p)
       /\ remoteName' # remoteName =>
             UNCHANGED <<phase, items, samplingTimer, latencyTimer, tick, probe>>]_vars

\* activated with the flag set; the flag has been cleared since, and a
\* probe started by the timer has written the cleared flag into the tooltip
\* of the item, which is still shown
C15_Witness ==
    /\ phase = "active"
    /\ remoteName = Undefined
    /\ latencyTimer
    /\ Displayed(responseTimeItem)
    /\ probe[1].pc = "returned"
    /\ LineOf(responseTimeItem.tooltip, "remote") = Lit(Undefined)

TicksInFlight == {t \in Ticks : InFlight(tick[t])}

\* C16: the sampling timer starts a tick whether or not earlier ticks have
\* completed: while the timer is set, a new tick can start in every state
\* with fewer than MaxTicks of them in flight, whatever the ones in flight
\* are waiting for; and a tick that starts leaves the ones in flight as they
\* are.
C16_NoBackpressure ==
    /\ [](samplingTimer /\ TicksInFlight # Ticks => ENABLED (\E t \in Ticks : TimerFire(t)))
    /\ [][\A t \in Ticks :
             Starts(tick, t) => \A u \in Ticks \ {t} : tick'[u] = tick[u]]_vars

\* every tick of the model is in flight at once, one of them still waiting
\* for si.time() and one for the fetches
C16_Witness ==
    /\ TicksInFlight = Ticks
    /\ tick[1].pc = "awaitAll"
    /\ tick[MaxTicks].pc = "awaitTime"
    /\ lastTick.outcome = "returned"

\* the provider call tick t is waiting for settles in this step
ProviderSettles(t) ==
    \/ \E d \in Durations : TimeResolve(t, d)
    \/ TimeReject(t)
    \/ \E s \in Snapshots : AllResolve(t, s.cpu, s.mem, s.disk)
    \/ \E f \in TickFetches : AllReject(t, f)

\* C17: nothing cancels or times out a provider call.  A tick in flight
\* stays where it is until its own provider call settles, and until it
\* completes it writes nothing: the items change only in a step that
\* completes a tick or a probe.  Meanwhile later ticks go on: the timer can
\* start one, the provider can answer one that is waiting, and one whose
\* fetches resolve writes its sample to the items and leaves the other ticks
\* as they are.
C17_HungTickOnlyDelaysItself ==
    /\ [][\A t \in Ticks :
             (InFlight(tick[t]) /\ tick'[t] # tick[t]) => ProviderSettles(t)]_vars
    /\ [][(phase' = phase /\ \A t \in Ticks : ~Completes(tick, t))
             => (\E p \in Probes : Completes(probe, p)) \/ UNCHANGED items]_vars
    /\ [](\A t \in Ticks :
             InFlight(tick[t]) =>
                 /\ (samplingTimer /\ TicksInFlight # Ticks) =>
                        ENABLED (\E u \in Ticks \ {t} : TimerFire(u))
                 /\ \A u \in Ticks \ {t}, d \in Durations :
                        tick[u].pc = "awaitTime" => ENABLED TimeResolve(u, d)
                 /\ \A u \in Ticks \ {t}, f \in TickFetches :
                        tick[u].pc = "awaitAll" => ENABLED AllReject(u, f))
    /\ [][\A u \in Ticks, s \in Snapshots :
             AllResolve(u, s.cpu, s.mem, s.disk) =>
                 /\ cpuUsageItem'.text = CpuText(s.cpu)
                 /\ memoryUsageItem'.text = MemoryText(s.mem)
                 /\ diskUsageItem'.text = DiskText(s.disk)
                 /\ \A t \in Ticks \ {u} : tick'[t] = tick[t]]_vars

\* the first tick is still waiting for si.time(); a later tick has
\* completed and written its sample, and the next one is waiting for its
\* fetches
C17_Witness ==
    /\ tick[1].pc = "awaitTime"
    /\ tick[2].pc = "awaitAll"
    /\ lastTick.outcome = "returned"
    /\ texts[2] = CpuText(CpuBusy)
    /\ texts[1].glyph = "cloud-upload"
    /\ phase = "active"

\* C18: the response time a tick whose fetches resolved writes to the
\* response time item is the duration that tick measured itself, whatever
\* ran between its measurement and its write.
C18_TickShowsOwnMeasurement ==
    [][\A t \in Ticks, s \in Snapshots :
          AllResolve(t, s.cpu, s.mem, s.disk) =>
              responseTimeItem'.text = ResponseText("cloud-upload", tick[t].elapsed)]_vars

\* what C19 says of a tick's measurement and of the detail view: the
\* measurement is in lastResponseTime as soon as si.time() has resolved,
\* with the fetches not awaited yet and nothing written to the items; a
\* failing tick leaves it there; the detail view shows lastResponseTime
MeasurementKept ==
    /\ \A t \in Ticks, d \in Durations :
          TimeResolve(t, d) =>
              /\ lastResponseTime' = d
              /\ tick'[t].pc = "awaitAll"
              /\ UNCHANGED items
    /\ \A t \in Ticks :
          (Completes(tick, t) /\ lastTick'.outcome = "caught") =>
              lastResponseTime' = lastResponseTime
    /\ \A i \in Details :
          (Completes(detail, i) /\ detail'[i].pc = "returned") =>
              /\ LineOf(lastInfo'[1], "Response Time").unit = "ms"
              /\ RoundsTo2(LineOf(lastInfo'[1], "Response Time").v, lastResponseTime)

\* C19 as claimed: MeasurementKept, and lastResponseTime is the measurement
\* of the tick whose si.time() resolved last: nothing but a tick's
\* measurement changes it.
C19_DetailShowsLastMeasuredTick ==
    [][/\ MeasurementKept
       /\ lastResponseTime' # lastResponseTime =>
              \E t \in Ticks, d \in Durations : TimeResolve(t, d)]_vars

\* C19 as amended: MeasurementKept, and lastResponseTime is the measurement
\* of the tick whose si.time() resolved last unless a remote probe has
\* succeeded since: nothing but a tick's measurement and a successful probe
\* changes it.
C19_DetailShowsLastWritten ==
    [][/\ MeasurementKept
       /\ lastResponseTime' # lastResponseTime =>
              \/ \E t \in Ticks, d \in Durations : TimeResolve(t, d)
              \/ \E p \in Probes : Completes(probe, p) /\ probe'[p].pc = "returned"]_vars

\* local mode: the tick that measured 20 ms has failed, all four items
\* carry the error indicator, and the detail view shows 20.00ms
C19_Witness ==
    /\ ~Remote
    /\ lastTick.outcome = "caught"
    /\ texts[1] = ErrorText
    /\ \A t \in Ticks : Free(tick[t])
    /\ lastResponseTime = 20000
    /\ detail[1].pc = "returned"
    /\ LineOf(lastInfo[1], "Response Time") = R(2000, 2, "ms")

\* C20: a failing tick replaces the text of the four items and nothing else
\* of them: each tooltip stays what the last successful tick, the last
\* probe or activate made it.
C20_FailureKeepsTooltips ==
    [][\A t \in Ticks :
          (Completes(tick, t) /\ lastTick'.outcome = "caught") =>
              /\ responseTimeItem' = [responseTimeItem EXCEPT !.text = ErrorText]
              /\ cpuUsageItem' = [cpuUsageItem EXCEPT !.text = ErrorText]
              /\ memoryUsageItem' = [memoryUsageItem EXCEPT !.text = ErrorText]
              /\ diskUsageItem' = [diskUsageItem EXCEPT !.text = ErrorText]]_vars

\* after a failed tick the four items carry the error indicator over the
\* tooltips of a probe and of an earlier tick
C20_Witness ==
    /\ lastTick.outcome = "caught"
    /\ texts = <<ErrorText, ErrorText, ErrorText, ErrorText>>
    /\ responseTimeItem.tooltip = RemoteTooltip(20000, "ssh-remote")
    /\ memoryUsageItem.tooltip = MemoryTooltip(MemSwap)
    /\ diskUsageItem.tooltip = DiskTooltip(OneDisk)

====
